---- MODULE Spec2Model ----
(***************************************************************************)
(* A model of pandoc_svgbob_filter/__init__.py: the SvgbobInline filter.   *)
(* main() constructs the filter object and lets the host walk the document *)
(* one element at a time, calling SvgbobInline.action on each.  Elements   *)
(* are kept in traversal order; a renderer process is a record that the    *)
(* operating system runs and ends on its own schedule.                     *)
(***************************************************************************)
EXTENDS Integers, Sequences, FiniteSets, TLC

(* ---------------------------------------------------------------- bounds *)
MaxNodes == 2

MaxClasses == 3

(* ------------------------------------------------------ python's values *)
PyStr(s) == [t |-> "str", v |-> s]

PyInt(n) == [t |-> "int", v |-> n]

PyNone == [t |-> "none"]

\* "{}".format(v): a str is inserted as it is, an int as its decimal digits
Format(v) == IF v.t = "int" THEN ToString(v.v) ELSE v.v

\* dict.get(key, default)
Get(d, key, default) == IF key \in DOMAIN d THEN d[key] ELSE default

EmptyDict == [k \in {} |-> PyNone]

\* list.remove(x): drops the first element equal to x
RECURSIVE Remove(_, _)
Remove(s, x) ==
    IF s = <<>> THEN <<>>
    ELSE IF Head(s) = x THEN Tail(s)
    ELSE <<Head(s)>> \o Remove(Tail(s), x)

\* x in list
In(x, s) == \E i \in 1..Len(s) : s[i] = x

(* ----------------------------------------------------------- environment *)
Marker == "svgbob"

Labels == {Marker, "a", "b"}

Binaries == {"svgbob_cli", "svgbob"}

Cwd == "/work"

NoFile == "<no such file>"

\* the text files a link may point to, by relative path
Files == [f \in {"diagram.txt", "copy.txt", "missing.txt"} |->
            CASE f = "diagram.txt" -> "x->y"
              [] f = "copy.txt" -> "a--b"
              [] OTHER -> NoFile]

Texts == {"a--b", "x->y"}

\* hashlib.sha1(data.encode("utf-8")).hexdigest()[:8] on the texts above
Sha1Prefix(data) ==
    CASE data = "a--b" -> "73823f1b"
      [] data = "x->y" -> "6c167aec"

\* os.path.abspath of a relative posix path
Abspath(p) == Cwd \o "/" \o p

\* shutil.which
Which(name, path) == name \in path

(* ------------------------------------------------------------ documents *)
Keys == {"font-family", "font-size", "scale", "stroke-width"}

AttrValue == [k \in Keys |->
    CASE k = "font-family" -> PyStr("Mono")
      [] k = "font-size" -> PyStr("20")
      [] k = "scale" -> PyStr("3")
      [] k = "stroke-width" -> PyStr("4")]

MetaValue == [k \in Keys |->
    CASE k = "font-family" -> PyStr("Serif")
      [] k = "font-size" -> PyStr("10")
      [] k = "scale" -> PyStr("5")
      [] k = "stroke-width" -> PyStr("6")]

AttrMaps == {[k \in S |-> AttrValue[k]] : S \in SUBSET Keys}

MetaKey(k) == "svgbob." \o k

MetaMaps == {[m \in {MetaKey(k) : k \in S} |->
                 MetaValue[CHOOSE k \in Keys : MetaKey(k) = m]] : S \in SUBSET Keys}

ClassLists == UNION {[1..n -> Labels] : n \in 0..MaxClasses}

CodeBlock(classes, attributes, text) ==
    [kind |-> "CodeBlock", classes |-> classes, identifier |-> "fig",
     attributes |-> attributes, text |-> text, url |-> "", content |-> <<>>]

Link(classes, attributes, url) ==
    [kind |-> "Link", classes |-> classes, identifier |-> "fig",
     attributes |-> attributes, text |-> "", url |-> url, content |-> <<"caption">>]

Other(classes) ==
    [kind |-> "Header", classes |-> classes, identifier |-> "fig",
     attributes |-> EmptyDict, text |-> "", url |-> "", content |-> <<"title">>]

\* one-element documents over every class list
ClassDocs ==
    {[nodes |-> <<n>>, meta |-> EmptyDict] :
        n \in {CodeBlock(c, EmptyDict, "a--b") : c \in ClassLists}
              \cup {Link(c, EmptyDict, "diagram.txt") : c \in ClassLists}
              \cup {Other(c) : c \in ClassLists}}

\* one-element documents over every combination of attributes and metadata
OptionDocs ==
    {[nodes |-> <<n>>, meta |-> m] :
        n \in {CodeBlock(<<Marker>>, a, "a--b") : a \in AttrMaps}
              \cup {Link(<<Marker>>, a, "diagram.txt") : a \in AttrMaps},
        m \in MetaMaps}

SeqAttrs == {EmptyDict, [k \in {"font-size"} |-> AttrValue[k]]}

SeqNodes ==
    {CodeBlock(<<Marker>>, a, t) : a \in SeqAttrs, t \in Texts}
    \cup {Link(<<Marker>>, a, u) : a \in SeqAttrs, u \in DOMAIN Files}
    \cup {Other(<<Marker>>)}

\* documents of up to MaxNodes elements
SeqDocs ==
    {[nodes |-> s, meta |-> EmptyDict] :
        s \in UNION {[1..n -> SeqNodes] : n \in 0..MaxNodes}}

Documents == ClassDocs \cup OptionDocs \cup SeqDocs

(* ---------------------------------------------------------------- state *)
VARIABLES
    pc,         \* where main() is: "init", "walk", "communicate", "done", "failed", "aborted"
    onPath,     \* the renderer binaries found on PATH
    dirExists,  \* os.path.exists("svg")
    mkdirs,     \* number of os.mkdir calls made
    dir_to,     \* self.dir_to
    svgbob_cmd, \* self.svgbob_cmd
    basename,   \* self.basename
    meta,       \* the document's metadata
    input,      \* the document as the host parsed it: nodes and meta (never written)
    elems,      \* the element objects, in traversal order
    tree,       \* what the document holds at each position
    idx,        \* position of the next element the host hands to action
    linkto,     \* local of the process_codeblock call in progress
    procs,      \* the renderer processes launched, oldest first
    artifacts,  \* the files of the output directory, by path
    log         \* lines given to pf.debug

vars == <<pc, onPath, dirExists, mkdirs, dir_to, svgbob_cmd, basename, meta,
          input, elems, tree, idx, linkto, procs, artifacts, log>>

Unset == "<unset>"

\* the document holds the element object itself
Ref(i) == [node |-> "Elem", ref |-> i]

Image(url, classes, identifier, attributes, title, content) ==
    [node |-> "Image", url |-> url, classes |-> classes, identifier |-> identifier,
     attributes |-> attributes, title |-> title, content |-> content]

Para(inline) == [node |-> "Para", content |-> <<inline>>]

Init ==
    /\ pc = "init"
    /\ onPath \in SUBSET Binaries
    /\ dirExists \in BOOLEAN
    /\ mkdirs = 0
    /\ dir_to = Unset
    /\ svgbob_cmd = Unset
    /\ basename = Unset
    /\ \E d \in Documents :
          /\ meta = d.meta
          /\ input = d
          /\ elems = d.nodes
          /\ tree = [i \in 1..Len(d.nodes) |-> Ref(i)]
    /\ idx = 1
    /\ linkto = Unset
    /\ procs = <<>>
    /\ artifacts = [p \in {} |-> Unset]
    /\ log = <<>>

(* ------------------------------------------------------------- __init__ *)
\* variant: the older binary name is tried first
ChooseCmdOldFirst(path) ==
    IF Which("svgbob", path) THEN "svgbob"
    ELSE IF Which("svgbob_cli", path) THEN "svgbob_cli"
    ELSE Unset

\* the binary __init__ settles on, Unset when it raises
ChooseCmd(path) ==
    IF Which("svgbob_cli", path) THEN "svgbob_cli"
    ELSE IF Which("svgbob", path) THEN "svgbob"
    ELSE Unset

\* main(): si = SvgbobInline(), then pf.run_filters starts the walk
SvgbobInlineInit ==
    /\ pc = "init"
    /\ dir_to' = "svg"
    /\ svgbob_cmd' = ChooseCmd(onPath)
    /\ pc' = IF ChooseCmd(onPath) = Unset THEN "failed" ELSE "walk"
    /\ UNCHANGED <<onPath, dirExists, mkdirs, basename, meta, input, elems, tree,
                   idx, linkto, procs, artifacts, log>>

(* ---------------------------------------------------------- get_options *)
OptionPart(flag, value, quoted) ==
    IF value.t = "none" THEN <<>>
    ELSE <<flag, IF quoted THEN "\"" \o Format(value) \o "\"" ELSE Format(value)>>

Background == <<"--background", "\"#fdf6e3\"">>

\* variant: the document's metadata wins over the element's attributes
get_options_meta_first(attributes, m) ==
    LET font_family == Get(m, "svgbob.font-family", Get(attributes, "font-family", PyStr("Arial")))
        font_size == Get(m, "svgbob.font-size", Get(attributes, "font-size", PyInt(14)))
        scale == Get(m, "svgbob.scale", Get(attributes, "scale", PyInt(1)))
        stroke_width == Get(m, "svgbob.stroke-width", Get(attributes, "stroke-width", PyInt(2)))
    IN  OptionPart("--font-family", font_family, TRUE)
        \o OptionPart("--font-size", font_size, FALSE)
        \o OptionPart("--scale", scale, FALSE)
        \o OptionPart("--stroke-width", stroke_width, FALSE)
        \o Background

\* the option string, as the sequence of its words
get_options(attributes, m) ==
    LET meta_font_family == Get(m, "svgbob.font-family", PyStr("Arial"))
        meta_font_size == Get(m, "svgbob.font-size", PyInt(14))
        meta_scale == Get(m, "svgbob.scale", PyInt(1))
        meta_stroke_width == Get(m, "svgbob.stroke-width", PyInt(2))
        font_family == Get(attributes, "font-family", meta_font_family)
        font_size == Get(attributes, "font-size", meta_font_size)
        scale == Get(attributes, "scale", meta_scale)
        stroke_width == Get(attributes, "stroke-width", meta_stroke_width)
    IN  OptionPart("--font-family", font_family, TRUE)
        \o OptionPart("--font-size", font_size, FALSE)
        \o OptionPart("--scale", scale, FALSE)
        \o OptionPart("--stroke-width", stroke_width, FALSE)
        \o Background

(* --------------------------------------------------------------- action *)
\* variant: every code block is converted, marked or not
IsCodeBlockTargetAnyClass(elem) == elem.kind = "CodeBlock"

IsCodeBlockTarget(elem) == elem.kind = "CodeBlock" /\ In(Marker, elem.classes)

IsLinkTarget(elem) == elem.kind = "Link" /\ In(Marker, elem.classes)

\* if not os.path.exists(self.dir_to): os.mkdir(self.dir_to)
EnsureDir ==
    /\ dirExists' = TRUE
    /\ mkdirs' = IF dirExists THEN mkdirs ELSE mkdirs + 1

\* variant: self.basename is set by the first conversion only
StaleBasename(counter) ==
    IF basename = Unset THEN dir_to \o "/" \o counter ELSE basename

\* "/".join([self.dir_to, str(counter)])
NewBasename(counter) == dir_to \o "/" \o counter

\* os.path.abspath(".".join([self.basename, "svg"]))
Linkto(b) == Abspath(b \o "." \o "svg")

CodeblockCommand(cmd, option, out) == <<cmd>> \o option \o <<"-o", out>>

\* variant: the link's source file is left out of the command
LinkCommandNoSource(cmd, fn, option, out) == <<cmd>> \o option \o <<"-o", out>>

LinkCommand(cmd, fn, option, out) == <<cmd, fn>> \o option \o <<"-o", out>>

\* sp.Popen(command, shell=True, stdin=PIPE, ...)
\* node, option, src and out say what the command makes the renderer do:
\* for which element, with which options, from which text, to which file
Popen(node, command, option, src, out) ==
    [node |-> node, command |-> command, option |-> option, src |-> src,
     stdin |-> <<>>, out |-> out, state |-> "running"]

\* process_codeblock up to communicate having sent the text to the process
ProcessCodeblockLaunch ==
    /\ pc = "walk"
    /\ idx <= Len(tree)
    /\ IsCodeBlockTarget(elems[idx])
    /\ EnsureDir
    /\ LET elem == elems[idx]
           data == elem.text
           counter == Sha1Prefix(data)
           b == NewBasename(counter)
           out == Linkto(b)
           option == get_options(elem.attributes, meta)
           command == CodeblockCommand(svgbob_cmd, option, out)
       IN  /\ basename' = b
           /\ linkto' = out
           /\ log' = Append(log, command)
           /\ procs' = Append(procs,
                  [Popen(idx, command, option, data, out) EXCEPT !.stdin = <<data>>])
    /\ pc' = "communicate"
    /\ UNCHANGED <<onPath, dir_to, svgbob_cmd, meta, input, elems, tree, idx, artifacts>>

\* variant: the process is not waited for
CommunicateNoWait(p) == TRUE

\* proc.communicate(input=...) returns once the process has ended
Communicate(p) == procs[p].state = "exited"

\* process_codeblock from communicate to its return
ProcessCodeblockReturn ==
    /\ pc = "communicate"
    /\ Communicate(Len(procs))
    /\ LET elem == elems[idx]
           classes == Remove(elem.classes, Marker)
       IN  /\ elems' = [elems EXCEPT ![idx].classes = classes]
           /\ tree' = [tree EXCEPT ![idx] =
                  Para(Image(linkto, classes, elem.identifier, elem.attributes, "", <<>>))]
           /\ log' = Append(log, <<"[codeblock]", "generate", "svgbob", "to", linkto>>)
    /\ idx' = idx + 1
    /\ linkto' = Unset
    /\ pc' = "walk"
    /\ UNCHANGED <<onPath, dirExists, mkdirs, dir_to, svgbob_cmd, basename, meta,
                   input, procs, artifacts>>

\* open(fn, "r", encoding="utf-8") raises when Files has no such file
OpenFails(fn) == fn \notin DOMAIN Files \/ Files[fn] = NoFile

\* the Link branch of action, the source file readable
ActionLink ==
    /\ pc = "walk"
    /\ idx <= Len(tree)
    /\ IsLinkTarget(elems[idx])
    /\ ~OpenFails(elems[idx].url)
    /\ EnsureDir
    /\ LET elem == elems[idx]
           caption == elem.content
           data == Files[elem.url]
           counter == Sha1Prefix(data)
           b == NewBasename(counter)
           fn == Abspath(elem.url)
           out == Linkto(b)
           option == get_options(elem.attributes, meta)
           command == LinkCommand(svgbob_cmd, fn, option, out)
           classes == Remove(elem.classes, Marker)
       IN  /\ basename' = b
           /\ log' = log \o <<command, <<"[inline]", "generate", "svgbob", "from", fn, "to", out>>>>
           /\ procs' = Append(procs, Popen(idx, command, option, data, out))
           /\ elems' = [elems EXCEPT ![idx].classes = classes]
           /\ tree' = [tree EXCEPT ![idx] =
                  Image(out, classes, elem.identifier, elem.attributes, "fig:", caption)]
    /\ idx' = idx + 1
    /\ UNCHANGED <<pc, onPath, dir_to, svgbob_cmd, meta, input, linkto, artifacts>>

\* variant: the error is swallowed and the walk goes on
ActionLinkOpenSwallowed ==
    /\ pc = "walk"
    /\ idx <= Len(tree)
    /\ IsLinkTarget(elems[idx])
    /\ OpenFails(elems[idx].url)
    /\ EnsureDir
    /\ idx' = idx + 1
    /\ UNCHANGED <<pc, onPath, dir_to, svgbob_cmd, basename, meta, input, elems, tree,
                   linkto, procs, artifacts, log>>

\* the Link branch of action, open() raising: the error leaves run_filters
ActionLinkOpenFails ==
    /\ pc = "walk"
    /\ idx <= Len(tree)
    /\ IsLinkTarget(elems[idx])
    /\ OpenFails(elems[idx].url)
    /\ EnsureDir
    /\ pc' = "aborted"
    /\ UNCHANGED <<onPath, dir_to, svgbob_cmd, basename, meta, input, elems, tree,
                   idx, linkto, procs, artifacts, log>>

\* neither branch of action taken: it returns None and the host keeps the element
ActionOther ==
    /\ pc = "walk"
    /\ idx <= Len(tree)
    /\ ~IsCodeBlockTarget(elems[idx])
    /\ ~IsLinkTarget(elems[idx])
    /\ idx' = idx + 1
    /\ UNCHANGED <<pc, onPath, dirExists, mkdirs, dir_to, svgbob_cmd, basename, meta,
                   input, elems, tree, linkto, procs, artifacts, log>>

\* every element visited: run_filters and main return
WalkDone ==
    /\ pc = "walk"
    /\ idx > Len(tree)
    /\ pc' = "done"
    /\ UNCHANGED <<onPath, dirExists, mkdirs, dir_to, svgbob_cmd, basename, meta,
                   input, elems, tree, idx, linkto, procs, artifacts, log>>

(* ------------------------------------------------------------- renderer *)
\* what the renderer writes: decided by the diagram text and the options
Rendering(p) == [src |-> p.src, option |-> p.option]

\* a renderer process ends, having written its output file unless it failed
RendererExit(p) ==
    /\ procs[p].state = "running"
    /\ procs' = [procs EXCEPT ![p].state = "exited"]
    /\ \E ok \in BOOLEAN :
          artifacts' = IF ok THEN (procs[p].out :> Rendering(procs[p])) @@ artifacts
                       ELSE artifacts
    /\ UNCHANGED <<pc, onPath, dirExists, mkdirs, dir_to, svgbob_cmd, basename, meta,
                   input, elems, tree, idx, linkto, log>>

Next ==
    \/ SvgbobInlineInit
    \/ ProcessCodeblockLaunch
    \/ ProcessCodeblockReturn
    \/ ActionLink
    \/ ActionLinkOpenFails
    \/ ActionOther
    \/ WalkDone
    \/ \E p \in 1..Len(procs) : RendererExit(p)

Spec == Init /\ [][Next]_vars

(* ----------------------------------------------------------- properties *)
Positions == 1..Len(tree)

Launched == 1..Len(procs)

Converted(i) == tree[i].node # "Elem"

\* the image put in the place of element i
ImageOf(i) == IF tree[i].node = "Para" THEN tree[i].content[1] ELSE tree[i]

NotMarker(c) == c # Marker

HasMarker(e) == \E k \in 1..Len(e.classes) : e.classes[k] = Marker

\* a code block or a link carrying the marker
Tagged(e) == e.kind \in {"CodeBlock", "Link"} /\ HasMarker(e)

Untouched(i) == tree[i] = Ref(i) /\ elems[i] = input.nodes[i]

NoProcessFor(i) == \A p \in Launched : procs[p].node # i

\* the text element e is a diagram of
ContentOf(e) == IF e.kind = "CodeBlock" THEN e.text ELSE Files[e.url]

\* <cwd>/svg/<first 8 hex digits of sha1(content)>.svg
ArtifactPath(content) == Cwd \o "/svg/" \o Sha1Prefix(content) \o ".svg"

Default == [k \in Keys |->
    CASE k = "font-family" -> "Arial"
      [] k = "font-size" -> "14"
      [] k = "scale" -> "1"
      [] k = "stroke-width" -> "2"]

\* attribute, else metadata, else default
Resolved(e, m, k) ==
    IF k \in DOMAIN e.attributes THEN e.attributes[k].v
    ELSE IF ("svgbob." \o k) \in DOMAIN m THEN m["svgbob." \o k].v
    ELSE Default[k]

ResolvedOptions(e, m) ==
    <<"--font-family", "\"" \o Resolved(e, m, "font-family") \o "\"",
      "--font-size", Resolved(e, m, "font-size"),
      "--scale", Resolved(e, m, "scale"),
      "--stroke-width", Resolved(e, m, "stroke-width"),
      "--background", "\"#fdf6e3\"">>

\* C1: every converted element's image has no marker label among its classes
\* and has the element's other labels in their original order.
C1_MarkerAbsent ==
    \A i \in Positions : Converted(i) =>
        /\ ~HasMarker(ImageOf(i))
        /\ SelectSeq(ImageOf(i).classes, NotMarker)
             = SelectSeq(input.nodes[i].classes, NotMarker)

C3_PathFromContent ==
    /\ \A p \in Launched :
          /\ procs[p].out = ArtifactPath(ContentOf(input.nodes[procs[p].node]))
          /\ procs[p].command[Len(procs[p].command)] = procs[p].out
          /\ Converted(procs[p].node) => ImageOf(procs[p].node).url = procs[p].out
    /\ \A p, q \in Launched :
          ContentOf(input.nodes[procs[p].node]) = ContentOf(input.nodes[procs[q].node])
              => procs[p].out = procs[q].out

C3_Witness ==
    /\ Len(procs) = 2
    /\ Converted(1) /\ Converted(2)
    /\ input.nodes[1].kind = "Link" /\ input.nodes[2].kind = "CodeBlock"
    /\ input.nodes[1].attributes # input.nodes[2].attributes
    /\ ImageOf(1).url = ImageOf(2).url

\* C4: an element that is not a marked code block or a marked link stays in
\* the document as it was, no process is launched for it, and the output
\* directory is not created before a marked code block or link is reached.
C4_OthersUntouched ==
    /\ \A i \in Positions : ~Tagged(input.nodes[i]) => Untouched(i) /\ NoProcessFor(i)
    /\ mkdirs > 0 => \E i \in Positions : i <= idx /\ Tagged(input.nodes[i])

C4_Witness ==
    /\ pc = "done"
    /\ Len(tree) = 2
    /\ input.nodes[1].kind = "Header" /\ HasMarker(input.nodes[1])
    /\ Converted(2)

\* C5: with no renderer binary on the path nothing is visited, created or
\* launched; otherwise svgbob_cli is preferred to svgbob and the choice stays.
C5_StartupState ==
    /\ pc \in {"init", "failed"} =>
          /\ idx = 1 /\ mkdirs = 0 /\ procs = <<>> /\ log = <<>>
          /\ \A i \in Positions : Untouched(i)
    /\ onPath = {} => pc \in {"init", "failed"}
    /\ pc \notin {"init", "failed"} =>
          svgbob_cmd = IF "svgbob_cli" \in onPath THEN "svgbob_cli" ELSE "svgbob"
    /\ pc = "failed" => onPath = {}

C5_Startup ==
    [] C5_StartupState /\ [][svgbob_cmd # Unset => svgbob_cmd' = svgbob_cmd]_vars

C5_Witness ==
    /\ pc = "failed"
    /\ ~dirExists
    /\ \E i \in Positions : Tagged(input.nodes[i])

\* C6: a marked link whose file cannot be read stops the walk at that link:
\* the link stays as it was, no process is launched for it, and no later
\* element is visited or converted.
C6_UnreadableAborts ==
    \A i \in Positions :
        (input.nodes[i].kind = "Link" /\ HasMarker(input.nodes[i])
            /\ Files[input.nodes[i].url] = NoFile) =>
            /\ idx <= i
            /\ pc # "done"
            /\ \A j \in Positions : j >= i => Untouched(j) /\ NoProcessFor(j)

C6_Witness ==
    /\ pc = "aborted"
    /\ idx = 1
    /\ Len(tree) = 2
    /\ input.nodes[1].kind = "Link"
    /\ input.nodes[2].kind = "CodeBlock" /\ HasMarker(input.nodes[2])
    /\ mkdirs = 1

\* C7 as stated: binary, options, then for a link the absolute source path,
\* then -o and the artifact path; a code block's text goes to standard input.
C7_DocumentedOrder ==
    \A p \in Launched :
        LET e == input.nodes[procs[p].node]
            source == IF e.kind = "Link" THEN <<Cwd \o "/" \o e.url>> ELSE <<>>
        IN  /\ procs[p].command
                 = <<svgbob_cmd>> \o ResolvedOptions(e, input.meta) \o source
                   \o <<"-o", ArtifactPath(ContentOf(e))>>
            /\ e.kind = "CodeBlock" => procs[p].stdin = <<e.text>>

\* C7 amended: for a link the absolute source path comes right after the
\* binary, before the options; -o and the artifact path come last; a code
\* block has no source argument and its text goes to standard input.
C7_CommandForm ==
    \A p \in Launched :
        LET e == input.nodes[procs[p].node]
            source == IF e.kind = "Link" THEN <<Cwd \o "/" \o e.url>> ELSE <<>>
        IN  /\ procs[p].command
                 = <<svgbob_cmd>> \o source \o ResolvedOptions(e, input.meta)
                   \o <<"-o", ArtifactPath(ContentOf(e))>>
            /\ procs[p].stdin = IF e.kind = "CodeBlock" THEN <<e.text>> ELSE <<>>

C7_Witness ==
    \E p, q \in Launched :
        /\ input.nodes[procs[p].node].kind = "Link"
        /\ input.nodes[procs[q].node].kind = "CodeBlock"

\* C8: a code block is replaced only after its renderer has ended, and while
\* only code blocks have been converted at most one renderer runs, every
\* earlier one having ended before the next was launched.
C8_CodeblockWaits ==
    /\ \A i \in Positions : tree[i].node = "Para" =>
          \E p \in Launched : procs[p].node = i /\ procs[p].state = "exited"
    /\ (\A p \in Launched : input.nodes[procs[p].node].kind = "CodeBlock") =>
          /\ Cardinality({p \in Launched : procs[p].state = "running"}) <= 1
          /\ \A p \in Launched : p < Len(procs) => procs[p].state = "exited"

C8_Witness ==
    /\ Len(procs) = 2
    /\ \A p \in Launched : input.nodes[procs[p].node].kind = "CodeBlock"
    /\ procs[1].state = "exited" /\ procs[2].state = "running"
    /\ tree[1].node = "Para"

\* C9: renderer runs that write the same artifact path were given the same
\* text and the same options, so the file holds the same rendering whichever
\* of them wrote it last.
C9_SamePathSameRendering ==
    /\ \A p, q \in Launched : procs[p].out = procs[q].out =>
          procs[p].src = procs[q].src /\ procs[p].option = procs[q].option
    /\ \A p \in Launched : procs[p].out \in DOMAIN artifacts =>
          artifacts[procs[p].out] = Rendering(procs[p])

\* C10: a converted element still has the classes, identifier, attributes
\* and payload it had before the conversion.
C10_OriginalKept ==
    \A i \in Positions : Converted(i) => elems[i] = input.nodes[i]


====
